---- MODULE Spec2Model ----
(***************************************************************************)
(* Model of hlpr (src/hlpr.py, src/tool.py): the REPL shell, its runtime   *)
(* settings and the tool-augmented response loop.                          *)
(*                                                                         *)
(* Text is modelled by TLA+ strings; the Python string methods the code    *)
(* uses (strip, lstrip, lower, startswith, split) are computed character   *)
(* by character.  The remote service, the terminal, the editor and the     *)
(* local tools are the environment: their outcomes are drawn from small    *)
(* sets.  The service hands out a fresh call_id with every function_call.  *)
(***************************************************************************)
EXTENDS Integers, Sequences, FiniteSets, TLC

(***************************************************************************)
(* Bounds                                                                  *)
(***************************************************************************)
\* cap on the number of remote requests of one session
MaxRequests == 2

(***************************************************************************)
(* Python string methods                                                   *)
(***************************************************************************)
CharAt(s, i) == SubSeq(s, i, i)

\* the characters str.strip and str.split treat as whitespace
IsSpace(c) == c \in {" ", "\t", "\n", "\r"}

UpperChars == "ABCDEFGHIJKLMNOPQRSTUVWXYZ"

LowerChars == "abcdefghijklmnopqrstuvwxyz"

LowerMap ==
    [c \in {CharAt(UpperChars, i) : i \in 1..Len(UpperChars)} |->
        CharAt(LowerChars, CHOOSE i \in 1..Len(UpperChars) : CharAt(UpperChars, i) = c)]

\* letters keep their case
LowerChar_same(c) == c

LowerChar(c) == IF c \in DOMAIN LowerMap THEN LowerMap[c] ELSE c

RECURSIVE lower(_)
lower(s) == IF s = "" THEN "" ELSE LowerChar(CharAt(s, 1)) \o lower(Tail(s))

RECURSIVE lstrip(_)
lstrip(s) == IF s # "" /\ IsSpace(CharAt(s, 1)) THEN lstrip(Tail(s)) ELSE s

RECURSIVE rstrip(_)
rstrip(s) ==
    IF s # "" /\ IsSpace(CharAt(s, Len(s))) THEN rstrip(SubSeq(s, 1, Len(s) - 1)) ELSE s

\* the text is used as typed
strip_nothing(s) == s

strip(s) == rstrip(lstrip(s))

startswith(s, p) == Len(s) >= Len(p) /\ SubSeq(s, 1, Len(p)) = p

RECURSIVE FirstWord(_)
\* the characters of s before its first whitespace character
FirstWord(s) ==
    IF s = "" \/ IsSpace(CharAt(s, 1)) THEN "" ELSE CharAt(s, 1) \o FirstWord(Tail(s))

\* s.split(maxsplit=1): split once on a run of whitespace
split_maxsplit1(s) ==
    LET t    == lstrip(s)
        word == FirstWord(t)
        rest == lstrip(SubSeq(t, Len(word) + 1, Len(t)))
    IN  IF t = "" THEN <<>>
        ELSE IF rest = "" THEN <<word>>
        ELSE <<word, rest>>

RECURSIVE after_equals(_)
\* s.split("=", 1)[1] for an s that contains "="
after_equals(s) == IF CharAt(s, 1) = "=" THEN Tail(s) ELSE after_equals(Tail(s))

\* str(b) of a Python bool
PyBool(b) == IF b THEN "True" ELSE "False"

(***************************************************************************)
(* Tool registry                                                           *)
(***************************************************************************)
ALLOWED_MODELS == <<"gpt-4o-mini", "gpt-4o", "gpt-4.1-nano", "gpt-4.1-mini", "gpt-4.1">>

AllowedModel(m) == \E i \in 1..Len(ALLOWED_MODELS) : ALLOWED_MODELS[i] = m

\* dict.setdefault(k, v) on a dict modelled as a function
setdefault(d, k, v) ==
    IF k \in DOMAIN d THEN d
    ELSE [x \in (DOMAIN d) \cup {k} |-> IF x = k THEN v ELSE d[x]]

\* Tool.__init__
Tool(function, tool_definition) ==
    [function   |-> function,
     definition |-> setdefault(setdefault(setdefault(setdefault(tool_definition,
                        "type", "function"), "name", function), "strict", TRUE),
                        "parameters", <<>>)]

ToolParameters ==
    [type |-> "object", properties |-> <<>>, additionalProperties |-> FALSE,
     required |-> <<>>]

TOOLS ==
    << Tool("get_current_datetime_utc",
            [type |-> "function", name |-> "get_current_datetime_utc",
             description |-> "Get the current date and time in UTC",
             strict |-> TRUE, parameters |-> ToolParameters]),
       Tool("get_uptime",
            [type |-> "function", name |-> "get_uptime",
             description |-> "Get the system uptime",
             strict |-> TRUE, parameters |-> ToolParameters]),
       Tool("get_uname",
            [type |-> "function", name |-> "get_uname",
             description |-> "Get the system uname output",
             strict |-> TRUE, parameters |-> ToolParameters]) >>

\* Tool.function_name
function_name(tool) == tool.function

WebSearchTool == [type |-> "web_search_preview", search_context_size |-> "low"]

\* the outcomes of running a tool's function: a result string or an exception
ToolOutcomes(name) ==
    IF name = "get_current_datetime_utc"
    THEN {[ok |-> TRUE, out |-> "2024-01-01 12:00:00+00:00"]}
    ELSE IF name = "get_uname"
    THEN {[ok |-> TRUE, out |-> "Linux host 6.1"],
          [ok |-> FALSE, out |-> "CalledProcessError"]}
    ELSE {[ok |-> TRUE, out |-> "up 1 day"],
          [ok |-> FALSE, out |-> "CalledProcessError"]}

(***************************************************************************)
(* Inputs of the environment                                               *)
(***************************************************************************)
\* command lines: sys.argv as parsed by parse_args
ArgvSet ==
    [model : {"gpt-4o-mini"}, list_models : {FALSE}, file : {<<>>},
     stats : BOOLEAN, web : BOOLEAN]
    \cup
    [model : {"gpt-4o-mini", "gpt-5"}, list_models : BOOLEAN,
     file : {<<>>, <<"notes.txt", "missing.txt">>}, stats : {FALSE}, web : {FALSE}]

\* the files that open() can read, with their contents
ReadableFiles == {"notes.txt"}

FileContent(path) == "hello"

\* lines typed at the prompt
Lines ==
    {"", "  ", "hello", " Quit ", "exit", ":edit", ":show model", ":show  web",
     ":show stats", ":show colour",
     ":set model= gpt-4.1 ", ":set model=gpt-5",
     ":set web=on", ":set web= YES", ":set web=off", ":set web=2",
     ":set stats=1", ":set stats=no", ":set colour=red"}

\* what the editor leaves in the scratch file; ok = FALSE: the editor exits non-zero
EditOutcomes ==
    {[ok |-> TRUE, text |-> ""], [ok |-> TRUE, text |-> " \t "],
     [ok |-> TRUE, text |-> "hello\n"], [ok |-> TRUE, text |-> ":set web=on\n"],
     [ok |-> TRUE, text |-> "exit\n"], [ok |-> FALSE, text |-> ""]}

NoEdit == [ok |-> TRUE, text |-> ""]

Usage ==
    [input_tokens |-> 1, output_tokens |-> 2,
     input_tokens_details |-> [cached_tokens |-> 0], total_tokens |-> 3]

\* names the service may ask for; get_weather is not registered
RequestedNames == {"get_current_datetime_utc", "get_uname", "get_weather"}

\* responses with further events after the leading one
MultiEventResponses(n) ==
    {[output |-> <<[type |-> "web_search_call"], [type |-> "message"],
                   [type |-> "function_call", name |-> "get_uname",
                    call_id |-> n + MaxRequests]>>,
      output_text |-> "found", usage |-> Usage],
     [output |-> <<[type |-> "function_call", name |-> "get_current_datetime_utc",
                    call_id |-> n],
                   [type |-> "function_call", name |-> "get_uname",
                    call_id |-> n + MaxRequests]>>,
      output_text |-> "", usage |-> Usage]}

\* responses of the remote service to the n-th request; n is the fresh call_id
Responses(n) ==
    {[output |-> <<[type |-> "message"]>>, output_text |-> "hi", usage |-> Usage],
     [output |-> <<[type |-> "reasoning"]>>, output_text |-> "", usage |-> Usage]}
    \cup
    {[output |-> <<[type |-> "function_call", name |-> f, call_id |-> n]>>,
      output_text |-> "", usage |-> Usage] : f \in RequestedNames}
    \cup MultiEventResponses(n)

(***************************************************************************)
(* State                                                                   *)
(***************************************************************************)
VARIABLES
    pc,           \* "start", "prompt" (in input()), "awaiting" (in responses.create), "done"
    args,         \* the argparse namespace: model, web, stats
    create_args,  \* model and tools of the request; its "input" is the list messages
    messages,     \* the conversation
    in_flight,    \* the request the remote service is working on, if any
    requests,     \* number of requests sent to the remote service so far
    branch,       \* the branch of the code the last step took
    tool_runs,    \* number of times a tool's function has been run
    stdout,       \* lines printed by the last step
    stderr,       \* diagnostic written by the last step, "" if none
    exit_code,    \* exit status of the process, -1 while it runs
    with_pc,      \* the main thread's position in "with Spinner(...): responses.create"
    exc,          \* whether an exception of the call is propagating out of the with block
    spinner,      \* the Spinner object: message, spinner_index, stop_event, spinner_thread
    spin_pc,      \* the position of the thread running Spinner._spin
    terminal      \* what the spinner wrote last to the terminal

\* the state of the busy indicator
spinner_vars == <<with_pc, exc, spinner, spin_pc, terminal>>

vars ==
    <<pc, args, create_args, messages, in_flight, requests, branch, tool_runs,
      stdout, stderr, exit_code, with_pc, exc, spinner, spin_pc, terminal>>

(***************************************************************************)
(* Settings                                                                *)
(***************************************************************************)
\* handle_show_command: the line it prints
handle_show_command(setting, a) ==
    IF setting = "model" THEN "model=" \o a.model
    ELSE IF setting = "web" THEN "web=" \o PyBool(a.web)
    ELSE IF setting = "stats" THEN "stats=" \o PyBool(a.stats)
    ELSE "error: unknown :show parameter '" \o setting \o "'"

IsWebSearch(tool) == tool.type = "web_search_preview"

\* the web search tool is appended without looking for one
enable_web_search_always(ca) == [ca EXCEPT !.tools = Append(@, WebSearchTool)]

enable_web_search(ca) ==
    IF \E i \in 1..Len(ca.tools) : IsWebSearch(ca.tools[i])
    THEN ca
    ELSE [ca EXCEPT !.tools = Append(@, WebSearchTool)]

\* the last entry is removed, whatever it is
disable_web_search_pop(ca) == [ca EXCEPT !.tools = SubSeq(@, 1, Len(@) - 1)]

disable_web_search(ca) ==
    [ca EXCEPT !.tools = SelectSeq(@, LAMBDA tool : ~IsWebSearch(tool))]

\* any non-empty value enables
BoolLike_truthy(value) == value # ""

\* value in ("1", "true", "on", "yes")
BoolLike(value) == value \in {"1", "true", "on", "yes"}

\* the request keeps the old model
set_model_args_only(model, a, ca) ==
    IF ~AllowedModel(model)
    THEN [args |-> a, create_args |-> ca,
          out |-> <<"Error: Model '" \o model \o "' not in allowed list.">>]
    ELSE [args |-> [a EXCEPT !.model = model], create_args |-> ca, out |-> <<>>]

\* handle_set_command, setting "model=<model>"
set_model(model, a, ca) ==
    IF ~AllowedModel(model)
    THEN [args |-> a, create_args |-> ca,
          out |-> <<"Error: Model '" \o model \o "' not in allowed list.">>]
    ELSE [args |-> [a EXCEPT !.model = model],
          create_args |-> [ca EXCEPT !.model = model], out |-> <<>>]

\* the tool schema list is left as it was
set_web_flag_only(value, a, ca) ==
    [args |-> [a EXCEPT !.web = BoolLike(value)], create_args |-> ca, out |-> <<>>]

\* handle_set_command, setting "web=<value>"
set_web(value, a, ca) ==
    LET web == BoolLike(value)
    IN  [args |-> [a EXCEPT !.web = web],
         create_args |-> IF web THEN enable_web_search(ca) ELSE disable_web_search(ca),
         out |-> <<>>]

\* handle_set_command, setting "stats=<value>"
set_stats(value, a, ca) ==
    [args |-> [a EXCEPT !.stats = BoolLike(value)], create_args |-> ca, out |-> <<>>]

\* an unknown key is taken for a stats value
set_unknown_as_stats(setting, a, ca) ==
    [args |-> [a EXCEPT !.stats = BoolLike(setting)], create_args |-> ca,
     out |-> <<"error: unknown :set parameter '" \o setting \o "'">>]

\* handle_set_command, any other setting
set_unknown(setting, a, ca) ==
    [args |-> a, create_args |-> ca,
     out |-> <<"error: unknown :set parameter '" \o setting \o "'">>]

\* handle_set_command: the settings after it and the lines it prints
handle_set_command(setting, a, ca) ==
    IF startswith(setting, "model=") THEN
        set_model(strip(after_equals(setting)), a, ca)
    ELSE IF startswith(setting, "web=") THEN
        set_web(lower(strip(after_equals(setting))), a, ca)
    ELSE IF startswith(setting, "stats=") THEN
        set_stats(lower(strip(after_equals(setting))), a, ca)
    ELSE set_unknown(setting, a, ca)

\* print_stats: the line it prints
print_stats(usage) ==
    "stats: input_tokens=" \o ToString(usage.input_tokens)
        \o " output_tokens=" \o ToString(usage.output_tokens)
        \o " cached_tokens=" \o ToString(usage.input_tokens_details.cached_tokens)
        \o " total_tokens=" \o ToString(usage.total_tokens)

(***************************************************************************)
(* Spinner                                                                 *)
(***************************************************************************)
\* the ten frames of Spinner.spinner_chars (braille patterns), written as digits
spinner_chars == "0123456789"

\* Spinner.__init__
Spinner(message) ==
    [message |-> message, spinner_index |-> 0, stop_event |-> FALSE,
     spinner_thread |-> "None"]

RECURSIVE Blanks(_)
\* " " * n
Blanks(n) == IF n = 0 THEN "" ELSE " " \o Blanks(n - 1)

(***************************************************************************)
(* Start of the process                                                    *)
(***************************************************************************)
\* every path is taken for readable
read_file_always_ok(file_path) == [ok |-> TRUE, content |-> FileContent(file_path)]

\* read_file: the contents, or the OSError that makes it exit
read_file(file_path) ==
    IF file_path \in ReadableFiles
    THEN [ok |-> TRUE, content |-> FileContent(file_path)]
    ELSE [ok |-> FALSE, content |-> "Error reading file: " \o file_path]

RECURSIVE developer_message(_)
\* main: the developer message built from the --file arguments
developer_message(files) ==
    IF files = <<>> THEN "You're a helpful and friendly assistant."
    ELSE LET file_path == files[Len(files)]
         IN  developer_message(SubSeq(files, 1, Len(files) - 1))
                \o "\nThe user wants to discuss the contents of the file '"
                \o file_path \o "'\nHere is the file content:\n"
                \o read_file(file_path).content \o "\n"

\* repl_run, before its loop: the arguments of every request
initial_create_args(a) ==
    LET definitions == [i \in 1..Len(TOOLS) |-> TOOLS[i].definition]
    IN  [model |-> a.model,
         tools |-> IF a.web THEN Append(definitions, WebSearchTool) ELSE definitions]

Init ==
    /\ pc = "start"
    /\ args = [model |-> "", web |-> FALSE, stats |-> FALSE]
    /\ create_args = [model |-> "", tools |-> <<>>]
    /\ messages = <<>>
    /\ in_flight = <<>>
    /\ requests = 0
    /\ branch = "init"
    /\ tool_runs = 0
    /\ stdout = <<>>
    /\ stderr = ""
    /\ exit_code = -1
    /\ with_pc = "before"
    /\ exc = FALSE
    /\ spinner = Spinner("Thinking")
    /\ spin_pc = "none"
    /\ terminal = ""

\* the step took branch b and printed out and err; the process goes on
Continue(b, out, err) ==
    /\ branch' = b
    /\ stdout' = out
    /\ stderr' = err
    /\ UNCHANGED exit_code
    /\ UNCHANGED spinner_vars

\* the step took branch b and ended the process with the given status;
\* a pending request is abandoned
Exit(b, code, out, err) ==
    /\ branch' = b
    /\ pc' = "done"
    /\ in_flight' = <<>>
    /\ exit_code' = code
    /\ stdout' = out
    /\ stderr' = err
    /\ UNCHANGED spinner_vars

\* main, up to the first prompt of repl_run
main(argv) ==
    /\ pc = "start"
    /\ args' = [model |-> argv.model, web |-> argv.web, stats |-> argv.stats]
    /\ UNCHANGED <<requests, tool_runs>>
    /\ IF argv.list_models THEN
            /\ Exit("list_models", 0, <<"Available models:">>
                        \o [i \in 1..Len(ALLOWED_MODELS) |-> "- " \o ALLOWED_MODELS[i]], "")
            /\ UNCHANGED <<create_args, messages>>
       ELSE IF ~AllowedModel(argv.model) THEN
            /\ Exit("bad_model", 0, <<"Error: Model '" \o argv.model \o "' not in allowed list.",
                         "Use --list-models to see available options.">>, "")
            /\ UNCHANGED <<create_args, messages>>
       ELSE IF \E i \in 1..Len(argv.file) : ~read_file(argv.file[i]).ok THEN
            LET i == CHOOSE k \in 1..Len(argv.file) :
                        /\ ~read_file(argv.file[k]).ok
                        /\ \A j \in 1..(k - 1) : read_file(argv.file[j]).ok
            IN  /\ Exit("bad_file", 1, <<read_file(argv.file[i]).content>>, "")
                /\ UNCHANGED <<create_args, messages>>
       ELSE
            /\ messages' = <<[role |-> "developer",
                              content |-> developer_message(argv.file)]>>
            /\ create_args' = initial_create_args(args')
            /\ pc' = "prompt"
            /\ Continue("repl", <<>>, "")
            /\ UNCHANGED in_flight

(***************************************************************************)
(* Response loop                                                           *)
(***************************************************************************)
\* the request carries a copy of the conversation taken before the last entry
Request_stale(ca, msgs) ==
    [model |-> ca.model, input |-> SubSeq(msgs, 1, Len(msgs) - 1), tools |-> ca.tools]

\* client.responses.create(**create_args): what the service receives
Request(ca, msgs) == [model |-> ca.model, input |-> msgs, tools |-> ca.tools]

\* the last event of the response is looked at
LeadingEvent_last(response) == response.output[Len(response.output)]

\* responses_create: response.output[0]
LeadingEvent(response) == response.output[1]

\* every type but function_call ends the loop
IsTerminal_any_other(response_type) == response_type # "function_call"

\* a function_call ends the loop too
IsTerminal_function_call(response_type) ==
    response_type \in {"message", "web_search_call", "function_call"}

\* responses_create: the response types that end the loop
IsTerminal(response_type) == response_type \in {"message", "web_search_call"}

\* the lookup falls back to a tool when the name is unknown
HasTool_fallback(name) == TRUE

\* next((tool for tool in TOOLS if tool.function_name() == function_name), None)
HasTool(name) == \E i \in 1..Len(TOOLS) : function_name(TOOLS[i]) = name

\* the result entry is forgotten
append_tool_call_no_output(msgs, tool_call, result) == Append(msgs, tool_call)

\* the result entry is appended before the call it answers
append_tool_call_swapped(msgs, tool_call, result) ==
    msgs \o <<[type |-> "function_call_output", call_id |-> tool_call.call_id,
               output |-> result],
              tool_call>>

\* responses_create: the two entries appended for a dispatched tool call
append_tool_call(msgs, tool_call, result) ==
    msgs \o <<tool_call,
              [type |-> "function_call_output", call_id |-> tool_call.call_id,
               output |-> result]>>

\* the assistant entry loses the text
append_assistant_no_text(msgs, assistant_text) ==
    Append(msgs, [role |-> "assistant", content |-> ""])

\* the assistant entry takes the place of the last entry
append_assistant_over_last(msgs, assistant_text) ==
    [msgs EXCEPT ![Len(msgs)] = [role |-> "assistant", content |-> assistant_text]]

\* responses_create: the entry appended on leaving the loop
append_assistant(msgs, assistant_text) ==
    Append(msgs, [role |-> "assistant", content |-> assistant_text])

\* repl_run: what is printed after a turn
turn_output(assistant_text, usage, a) ==
    <<"--------">> \o (IF assistant_text = "" THEN <<>> ELSE <<assistant_text>>)
        \o (IF a.stats THEN <<print_stats(usage)>> ELSE <<>>)

\* responses_create from the return of one responses.create call to the next call,
\* or to the end of the turn and the next prompt of repl_run
ServiceResponse(response, outcome) ==
    /\ pc = "awaiting"
    /\ in_flight # <<>>
    /\ UNCHANGED <<args, create_args>>
    /\ LET response_type == LeadingEvent(response).type
       IN  IF IsTerminal(response_type) THEN
                /\ messages' = append_assistant(messages, response.output_text)
                /\ pc' = "prompt"
                /\ in_flight' = <<>>
                /\ Continue("final",
                            turn_output(response.output_text, response.usage, args), "")
                /\ UNCHANGED <<requests, tool_runs>>
           ELSE IF response_type = "function_call" THEN
                LET tool_call == LeadingEvent(response)
                IN  IF ~HasTool(tool_call.name) THEN
                        \* tool is None: tool.call() raises AttributeError
                        /\ Exit("no_tool", 1, <<>>, "AttributeError")
                        /\ UNCHANGED <<messages, requests, tool_runs>>
                    ELSE IF ~outcome.ok THEN
                        \* the tool's function raises
                        /\ Exit("tool_raised", 1, <<>>, outcome.out)
                        /\ tool_runs' = tool_runs + 1
                        /\ UNCHANGED <<messages, requests>>
                    ELSE
                        /\ requests < MaxRequests
                        /\ tool_runs' = tool_runs + 1
                        /\ messages' = append_tool_call(messages, tool_call, outcome.out)
                        /\ in_flight' = <<Request(create_args, messages')>>
                        /\ requests' = requests + 1
                        /\ Continue("dispatched", <<>>, "")
                        /\ UNCHANGED pc
           ELSE
                /\ Exit("unknown_type", 1, <<>>, "error: don't know what to do with response type: "
                                    \o response_type)
                /\ UNCHANGED <<messages, requests, tool_runs>>

\* the remote service answers the pending request
Respond ==
    \E response \in Responses(requests) :
        LET leading == LeadingEvent(response)
        IN  IF leading.type = "function_call" /\ HasTool(leading.name)
            THEN \E outcome \in ToolOutcomes(leading.name) :
                    ServiceResponse(response, outcome)
            ELSE ServiceResponse(response, [ok |-> TRUE, out |-> ""])

\* the failed request is sent again
ServiceError_retry ==
    /\ pc = "awaiting"
    /\ requests < MaxRequests
    /\ requests' = requests + 1
    /\ in_flight' = <<Request(create_args, messages)>>
    /\ Continue("service_error", <<>>, "APIError")
    /\ UNCHANGED <<pc, args, create_args, messages, tool_runs>>

\* responses.create raises (network or API error): nothing catches it
ServiceError ==
    /\ pc = "awaiting"
    /\ Exit("service_error", 1, <<>>, "APIError")
    /\ UNCHANGED <<args, create_args, messages, requests, tool_runs>>

(***************************************************************************)
(* REPL shell                                                              *)
(***************************************************************************)
\* one pass of the loop of repl_run, from input() to the next input() or to the
\* first responses.create call of the turn
ReadLine(line, edit) ==
    /\ pc = "prompt"
    /\ UNCHANGED tool_runs
    /\ LET typed == strip(line)
           continue(b, out) ==
                /\ Continue(b, out, "")
                /\ UNCHANGED <<pc, args, create_args, messages, in_flight, requests>>
           command(user_input) ==
                IF startswith(user_input, ":show ") THEN
                    LET parts == split_maxsplit1(user_input)
                    IN  continue("show",
                                 IF Len(parts) > 1
                                 THEN <<handle_show_command(lstrip(parts[2]), args)>>
                                 ELSE <<>>)
                ELSE IF startswith(user_input, ":set ") THEN
                    LET parts == split_maxsplit1(user_input)
                        set   == handle_set_command(lstrip(parts[2]), args, create_args)
                    IN  IF Len(parts) > 1
                        THEN /\ args' = set.args
                             /\ create_args' = set.create_args
                             /\ Continue("set", set.out, "")
                             /\ UNCHANGED <<pc, messages, in_flight, requests>>
                        ELSE continue("set", <<>>)
                ELSE
                    /\ requests < MaxRequests
                    /\ messages' = Append(messages,
                                          [role |-> "user", content |-> user_input])
                    /\ in_flight' = <<Request(create_args, messages')>>
                    /\ requests' = requests + 1
                    /\ pc' = "awaiting"
                    /\ Continue("turn", <<>>, "")
                    /\ UNCHANGED <<args, create_args>>
       IN  IF typed = "" THEN continue("empty", <<>>)
           ELSE IF lower(typed) \in {"exit", "quit"} THEN
                /\ Exit("quit", 0, <<>>, "")
                /\ UNCHANGED <<args, create_args, messages, requests>>
           ELSE IF typed = ":edit" THEN
                IF ~edit.ok THEN
                    \* subprocess.run(check=True) raises CalledProcessError
                    /\ Exit("edit_failed", 1, <<>>, "CalledProcessError")
                    /\ UNCHANGED <<args, create_args, messages, requests>>
                ELSE IF strip(edit.text) = "" THEN continue("edit_empty", <<>>)
                ELSE command(strip(edit.text))
           ELSE command(typed)

\* the user types a line (and, for :edit, fills the scratch file)
Prompt ==
    \E line \in Lines :
        IF strip(line) = ":edit"
        THEN \E edit \in EditOutcomes : ReadLine(line, edit)
        ELSE ReadLine(line, NoEdit)

\* end of input or an interrupt, at the prompt or during a request:
\* repl_run prints "Exiting." and exits with status 0
Interrupt ==
    /\ pc \in {"prompt", "awaiting"}
    /\ Exit("interrupt", 0, <<"", "Exiting.">>, "")
    /\ UNCHANGED <<args, create_args, messages, requests, tool_runs>>

Start == \E argv \in ArgvSet : main(argv)

Next == Start \/ Prompt \/ Respond \/ ServiceError \/ Interrupt

Spec == Init /\ [][Next]_vars

\* the remote service answers every request that stays pending
FairSpec == Spec /\ WF_vars(Respond)

(***************************************************************************)
(* Busy indicator: the statement                                           *)
(*     with Spinner("Thinking"): response = client.responses.create(...)   *)
(* of responses_create and the thread it starts.  Spec takes the statement *)
(* as one step of the main thread; SpinnerSpec runs it step by step,       *)
(* interleaved with the thread of Spinner._spin.                           *)
(***************************************************************************)
\* the main thread's steps leave the thread's position and the terminal alone
main_thread_frame == UNCHANGED <<spin_pc, terminal>>

\* Spinner("Thinking") and Spinner.__enter__: a new object, whose thread is started
Spinner_enter ==
    /\ with_pc = "before"
    /\ spinner' = [Spinner("Thinking") EXCEPT !.spinner_thread = "Thread"]
    /\ spin_pc' = "test"
    /\ with_pc' = "call"
    /\ exc' = FALSE
    /\ UNCHANGED terminal

\* the body of the with block: responses.create returns or raises
Spinner_body ==
    /\ with_pc = "call"
    /\ exc' \in BOOLEAN
    /\ with_pc' = "exit"
    /\ UNCHANGED spinner
    /\ main_thread_frame

\* Spinner.__exit__: self.stop_event.set()
Spinner_exit ==
    /\ with_pc = "exit"
    /\ spinner' = [spinner EXCEPT !.stop_event = TRUE]
    /\ with_pc' = "join"
    /\ UNCHANGED exc
    /\ main_thread_frame

\* control leaves the with block without waiting for the thread
Spinner_join_no_wait ==
    /\ with_pc = "join"
    /\ with_pc' = "after"
    /\ UNCHANGED <<exc, spinner>>
    /\ main_thread_frame

\* Spinner.__exit__: self.spinner_thread.join() returns once the thread has ended,
\* and control leaves the with block
Spinner_join ==
    /\ with_pc = "join"
    /\ spin_pc = "dead"
    /\ with_pc' = "after"
    /\ UNCHANGED <<exc, spinner>>
    /\ main_thread_frame

\* responses_create goes round its loop to the next with statement;
\* an exception has left responses_create instead
Spinner_again ==
    /\ with_pc = "after"
    /\ ~exc
    /\ with_pc' = "before"
    /\ UNCHANGED <<exc, spinner>>
    /\ main_thread_frame

\* Spinner._spin: the test of the while loop
spin_test ==
    /\ spin_pc = "test"
    /\ spin_pc' = IF spinner.stop_event THEN "clear" ELSE "write"
    /\ UNCHANGED <<with_pc, exc, spinner, terminal>>

\* Spinner._spin: write a frame, flush, and advance spinner_index
spin_write ==
    /\ spin_pc = "write"
    /\ terminal' = "\r" \o spinner.message \o " "
                        \o CharAt(spinner_chars, spinner.spinner_index + 1) \o " "
    /\ spinner' = [spinner EXCEPT
                        !.spinner_index = (@ + 1) % Len(spinner_chars)]
    /\ spin_pc' = "sleep"
    /\ UNCHANGED <<with_pc, exc>>

\* Spinner._spin: time.sleep(0.1) is over
spin_sleep ==
    /\ spin_pc = "sleep"
    /\ spin_pc' = "test"
    /\ UNCHANGED <<with_pc, exc, spinner, terminal>>

\* Spinner._spin: after the loop, blank the line; the thread ends
spin_clear ==
    /\ spin_pc = "clear"
    /\ terminal' = "\r" \o Blanks(Len(spinner.message) + 3) \o "\r"
    /\ spin_pc' = "dead"
    /\ UNCHANGED <<with_pc, exc, spinner>>

\* the steps of the thread
spin == spin_test \/ spin_write \/ spin_sleep \/ spin_clear

\* neither thread touches the state of the session
SpinnerStep(A) ==
    /\ A
    /\ UNCHANGED <<pc, args, create_args, messages, in_flight, requests, branch,
                   tool_runs, stdout, stderr, exit_code>>

SpinnerNext ==
    \/ SpinnerStep(Spinner_enter)
    \/ SpinnerStep(Spinner_body)
    \/ SpinnerStep(Spinner_exit)
    \/ SpinnerStep(Spinner_join)
    \/ SpinnerStep(Spinner_again)
    \/ SpinnerStep(spin_test)
    \/ SpinnerStep(spin_write)
    \/ SpinnerStep(spin_sleep)
    \/ SpinnerStep(spin_clear)

\* a runnable thread gets to run, and time.sleep and join return when they can
SpinnerSpec ==
    /\ Init
    /\ [][SpinnerNext]_vars
    /\ WF_vars(SpinnerStep(spin))
    /\ WF_vars(SpinnerStep(Spinner_exit))
    /\ WF_vars(SpinnerStep(Spinner_join))

(***************************************************************************)
(* Conversation entries                                                    *)
(***************************************************************************)
IsFunctionCall(m) == "type" \in DOMAIN m /\ m.type = "function_call"

IsFunctionCallOutput(m) == "type" \in DOMAIN m /\ m.type = "function_call_output"

HasRole(m, role) == "role" \in DOMAIN m /\ m.role = role

\* number of entries of the first k entries of conv that satisfy Test
Count(conv, k, Test(_)) == Cardinality({i \in 1..k : Test(conv[i])})

IsUserMessage(m) == HasRole(m, "user")

\* every outcome any tool can have
AllOutcomes == UNION {ToolOutcomes(f) : f \in RequestedNames}

\* the names the tool schemas sent to the service declare
RegisteredNames == {TOOLS[i].definition.name : i \in 1..Len(TOOLS)}

(***************************************************************************)
(* C1: in responses_create, in every request sent to the remote service,   *)
(* every function_call entry of the conversation is immediately followed   *)
(* by exactly one function_call_output entry with the same call_id: no     *)
(* request goes out with an unmatched function_call, and no call_id has    *)
(* more than one result.                                                   *)
(***************************************************************************)
C1_ToolCallsMatched ==
    in_flight # <<>> =>
        LET input == in_flight[1].input
        IN  /\ \A i \in 1..Len(input) :
                IsFunctionCall(input[i]) =>
                    /\ i < Len(input)
                    /\ IsFunctionCallOutput(input[i + 1])
                    /\ input[i + 1].call_id = input[i].call_id
            /\ \A j \in 1..Len(input) :
                IsFunctionCallOutput(input[j]) =>
                    /\ j > 1
                    /\ IsFunctionCall(input[j - 1])
                    /\ \A k \in 1..Len(input) :
                        (IsFunctionCallOutput(input[k])
                            /\ input[k].call_id = input[j].call_id) => k = j

\* a request is sent whose conversation holds a tool call and its result
C1_Witness ==
    /\ in_flight # <<>>
    /\ \E i \in 1..Len(in_flight[1].input) : IsFunctionCall(in_flight[1].input[i])

(***************************************************************************)
(* C2: when the service emits n >= 0 function_call events naming           *)
(* registered tools and then a terminal message event, responses_create    *)
(* sends exactly n+1 requests, appends one function_call and               *)
(* function_call_output pair per event in the order the service emitted    *)
(* them, each pair before the next request goes out, and returns the text  *)
(* of the terminal event.                                                  *)
(*                                                                         *)
(* The event answering the k-th request carries call_id k.  So: every turn *)
(* costs one request for its user message and one per function_call entry  *)
(* (requests counts them all); the function_call entry with call_id k      *)
(* stands where k-1 requests had been answered before it, directly         *)
(* followed by its result; the request in flight carries the whole         *)
(* conversation; and the step that receives a message event appends its    *)
(* text as the assistant message, prints it and sends nothing.             *)
(***************************************************************************)
C2_Pairs ==
    /\ requests = Count(messages, Len(messages), IsUserMessage)
                    + Count(messages, Len(messages), IsFunctionCall)
    /\ \A i \in 1..Len(messages) :
            IsFunctionCall(messages[i]) =>
                /\ messages[i].call_id = Count(messages, i, IsUserMessage)
                                            + Count(messages, i - 1, IsFunctionCall)
                /\ i < Len(messages)
                /\ IsFunctionCallOutput(messages[i + 1])
                /\ messages[i + 1].call_id = messages[i].call_id
    /\ in_flight # <<>> => in_flight[1].input = messages

C2_Return ==
    \A response \in Responses(requests) :
        (response.output[1].type = "message"
            /\ ServiceResponse(response, [ok |-> TRUE, out |-> ""])) =>
                /\ messages' = Append(messages, [role |-> "assistant",
                                                 content |-> response.output_text])
                /\ stdout'[2] = response.output_text
                /\ requests' = requests
                /\ in_flight' = <<>>
                /\ pc' = "prompt"

C3_ToolFailureSurfaced ==
    [][\A response \in Responses(requests) : \A outcome \in AllOutcomes :
        (/\ response.output[1].type = "function_call"
         /\ response.output[1].name \in RegisteredNames
         /\ ~outcome.ok
         /\ ServiceResponse(response, outcome)) =>
            /\ pc' = "awaiting"
            /\ exit_code' = -1
            /\ in_flight' # <<>>
            /\ Len(messages') = Len(messages) + 2
            /\ IsFunctionCallOutput(messages'[Len(messages')])
            /\ messages'[Len(messages')].call_id = response.output[1].call_id]_vars

(***************************************************************************)
(* C4: when the leading event of a response is a function_call naming a    *)
(* tool that is not registered, the process stops with a diagnostic and a  *)
(* non-zero exit status: no tool is run, nothing is appended to the        *)
(* conversation and no further request is sent.                            *)
(***************************************************************************)
C4_UnknownToolFatal ==
    [][\A response \in Responses(requests) : \A outcome \in AllOutcomes :
        (/\ response.output[1].type = "function_call"
         /\ response.output[1].name \notin RegisteredNames
         /\ ServiceResponse(response, outcome)) =>
            /\ pc' = "done"
            /\ exit_code' > 0
            /\ stderr' # ""
            /\ tool_runs' = tool_runs
            /\ messages' = messages
            /\ requests' = requests
            /\ in_flight' = <<>>]_vars

\* the service asked for an unregistered tool and the process has stopped
C4_Witness ==
    /\ branch = "no_tool"
    /\ pc = "done"
    /\ exit_code = 1
    /\ requests >= 1
    /\ in_flight = <<>>

(***************************************************************************)
(* C5: when the leading event of a response has a type other than message, *)
(* web_search_call or function_call, the process stops with a diagnostic   *)
(* and a non-zero exit status: nothing is appended to the conversation for *)
(* that response and no further request is sent.                           *)
(***************************************************************************)
C5_UnknownTypeFatal ==
    [][\A response \in Responses(requests) : \A outcome \in AllOutcomes :
        (/\ response.output[1].type \notin {"message", "web_search_call", "function_call"}
         /\ ServiceResponse(response, outcome)) =>
            /\ pc' = "done"
            /\ exit_code' > 0
            /\ stderr' = "error: don't know what to do with response type: "
                            \o response.output[1].type
            /\ tool_runs' = tool_runs
            /\ messages' = messages
            /\ requests' = requests
            /\ in_flight' = <<>>]_vars

\* the service sent a reasoning event and the process has stopped
C5_Witness ==
    /\ branch = "unknown_type"
    /\ pc = "done"
    /\ exit_code = 1
    /\ stderr = "error: don't know what to do with response type: reasoning"
    /\ ~HasRole(messages[Len(messages)], "assistant")

(***************************************************************************)
(* Settings seen from outside                                              *)
(***************************************************************************)
Running == pc \in {"prompt", "awaiting"}

WebCount(tools) == Cardinality({i \in 1..Len(tools) : tools[i].type = "web_search_preview"})

\* the text of a line after its first n characters, stripped of outer whitespace
Rest(line, n) == strip(SubSeq(strip(line), n + 1, Len(strip(line))))

SetModelLines == {line \in Lines : startswith(strip(line), ":set model=")}

(***************************************************************************)
(* C6: ":set model=<name>" with a name outside the allow-list leaves the   *)
(* active model unchanged (args.model and the model of the requests), with *)
(* an allowed name it changes both; nothing else changes the model, so     *)
(* every request sent afterwards, each request of a multi-step turn too,   *)
(* carries the most recently accepted model; and ":show model" prints the  *)
(* model the requests carry.                                               *)
(***************************************************************************)
C6_ModelInSync ==
    /\ Running => (create_args.model = args.model /\ AllowedModel(args.model))
    /\ in_flight # <<>> => in_flight[1].model = args.model

C6_SetModel ==
    \A line \in SetModelLines :
        ReadLine(line, NoEdit) =>
            LET name == Rest(line, Len(":set model="))
            IN  IF name \in {"gpt-4o-mini", "gpt-4o", "gpt-4.1-nano", "gpt-4.1-mini",
                             "gpt-4.1"}
                THEN args'.model = name /\ create_args'.model = name
                ELSE args' = args /\ create_args' = create_args /\ stdout' # <<>>

C6_OnlySetModel ==
    (Running /\ <<args.model, create_args.model>> # <<args'.model, create_args'.model>>)
        => \E line \in SetModelLines : ReadLine(line, NoEdit)

C6_ShowModel ==
    ReadLine(":show model", NoEdit) => stdout' = <<"model=" \o create_args.model>>

C6_ActiveModel ==
    [](C6_ModelInSync) /\ [][C6_SetModel /\ C6_OnlySetModel /\ C6_ShowModel]_vars

\* the second request of a turn goes out with the model set at the prompt
C6_Witness ==
    /\ in_flight # <<>>
    /\ in_flight[1].model = "gpt-4.1"
    /\ args.model = "gpt-4.1"
    /\ branch = "dispatched"

(***************************************************************************)
(* C7: whatever ":set web=<value>" commands are given, with web search on  *)
(* or off at launch, the tool schema list sent to the service never holds  *)
(* more than one web-search entry.                                         *)
(***************************************************************************)
C7_OneWebSearch ==
    /\ WebCount(create_args.tools) <= 1
    /\ in_flight # <<>> => WebCount(in_flight[1].tools) <= 1

\* a ":set web=" command has left web search enabled, with its single entry
C7_Witness ==
    /\ branch = "set"
    /\ args.web
    /\ WebCount(create_args.tools) = 1

(***************************************************************************)
(* C8: the tool schema list of every request holds a web-search entry if   *)
(* and only if the web setting is enabled when the request is sent         *)
(* (enabled by --web at launch or by the latest ":set web=" command), and  *)
(* ":show web" reports that same value.                                    *)
(***************************************************************************)
C8_WebInSync ==
    /\ Running => (args.web <=> WebCount(create_args.tools) > 0)
    /\ in_flight # <<>> => (args.web <=> WebCount(in_flight[1].tools) > 0)

C8_SetWeb ==
    /\ ReadLine(":set web=on", NoEdit) => args'.web /\ WebCount(create_args'.tools) > 0
    /\ ReadLine(":set web=off", NoEdit) => ~args'.web /\ WebCount(create_args'.tools) = 0

C8_ShowWeb ==
    ReadLine(":show  web", NoEdit) =>
        stdout' = <<IF WebCount(create_args.tools) > 0 THEN "web=True" ELSE "web=False">>

C8_WebSetting == [](C8_WebInSync) /\ [][C8_SetWeb /\ C8_ShowWeb]_vars

\* the second request of a session goes out with web search disabled and
\* no web-search entry among its tools
C8_Witness ==
    /\ in_flight # <<>>
    /\ ~args.web
    /\ WebCount(in_flight[1].tools) = 0
    /\ Len(in_flight[1].tools) = Len(TOOLS)
    /\ requests = 2

(***************************************************************************)
(* C9: an empty or whitespace-only line, and an ":edit" whose scratch file *)
(* is empty or whitespace-only, append nothing to the conversation and     *)
(* send no request: the REPL goes to the next prompt with the conversation *)
(* and the settings unchanged.                                             *)
(***************************************************************************)
Blank(s) == \A i \in 1..Len(s) : CharAt(s, i) \in {" ", "\t", "\n", "\r"}

C9_BlankIgnored ==
    [][\A line \in Lines : \A edit \in EditOutcomes :
        (/\ Blank(line) \/ (line = ":edit" /\ edit.ok /\ Blank(edit.text))
         /\ ReadLine(line, edit)) =>
            /\ pc' = "prompt"
            /\ in_flight' = <<>>
            /\ UNCHANGED <<messages, requests, args, create_args, exit_code>>]_vars

\* after a completed turn, an ":edit" left the scratch file blank
C9_Witness ==
    /\ branch = "edit_empty"
    /\ pc = "prompt"
    /\ requests = 1
    /\ Len(messages) = 3

(***************************************************************************)
(* C10: ":show <key>" and ":set <key>=<value>" lines are handled locally:  *)
(* they append nothing to the conversation and send no request; ":show"    *)
(* changes no setting, whatever the key; ":set" with a key other than      *)
(* model, web and stats prints an error and leaves model, web, stats and   *)
(* the tool schema list unchanged.                                         *)
(***************************************************************************)
ShowLines == {line \in Lines : startswith(strip(line), ":show ")}

SetLines == {line \in Lines : startswith(strip(line), ":set ")}

OtherKeyLines ==
    {line \in SetLines :
        LET setting == Rest(line, Len(":set "))
        IN  /\ ~startswith(setting, "model=")
            /\ ~startswith(setting, "web=")
            /\ ~startswith(setting, "stats=")}

\* the step stays at the prompt, appends nothing and sends nothing
C10_Local == pc' = "prompt" /\ UNCHANGED <<messages, requests, in_flight, exit_code>>

\* the step changes no setting
C10_SettingsKept == UNCHANGED <<args, create_args>>

\* (each part is written "effect, or else the line was not read")
C10_LocalCommands ==
    [][pc = "prompt" =>
        /\ (C10_Local /\ C10_SettingsKept)
                \/ \A line \in ShowLines : ~ReadLine(line, NoEdit)
        /\ C10_Local
                \/ \A line \in SetLines : ~ReadLine(line, NoEdit)
        /\ \A line \in OtherKeyLines :
                ReadLine(line, NoEdit) =>
                    /\ C10_SettingsKept
                    /\ stdout' = <<"error: unknown :set parameter '"
                                        \o Rest(line, Len(":set ")) \o "'">>]_vars

\* ":set colour=red" was answered with an error
C10_Witness ==
    /\ branch = "set"
    /\ pc = "prompt"
    /\ stdout = <<"error: unknown :set parameter 'colour=red'">>

(***************************************************************************)
(* C11: a line that, stripped, is not empty, not exit or quit, not ":edit" *)
(* and not a ":show " or ":set " command appends exactly one user message  *)
(* holding the stripped line and only then sends the first request of the  *)
(* turn; every request in flight carries the current model and the whole   *)
(* conversation; when a terminal response ends the turn, the conversation  *)
(* grows by one entry, the assistant message holding the response's text,  *)
(* and the REPL is back at the prompt.                                     *)
(***************************************************************************)
OrdinaryLines ==
    {line \in Lines :
        /\ ~Blank(line)
        /\ lower(strip(line)) \notin {"exit", "quit"}
        /\ strip(line) # ":edit"
        /\ ~startswith(strip(line), ":show ")
        /\ ~startswith(strip(line), ":set ")}

C11_Sent ==
    \A line \in OrdinaryLines :
        ReadLine(line, NoEdit) =>
            /\ messages' = Append(messages, [role |-> "user", content |-> strip(line)])
            /\ requests' = requests + 1
            /\ pc' = "awaiting"
            /\ Len(in_flight') = 1

C11_Carried ==
    in_flight # <<>> =>
        /\ pc = "awaiting"
        /\ in_flight[1].model = args.model
        /\ in_flight[1].input = messages
        /\ in_flight[1].tools = create_args.tools

C11_Completed ==
    (pc = "awaiting" /\ pc' = "prompt") =>
        /\ \E response \in Responses(requests) :
                /\ IsTerminal(response.output[1].type)
                /\ messages' = Append(messages, [role |-> "assistant",
                                                 content |-> response.output_text])
        /\ in_flight' = <<>>
        /\ requests' = requests

C11_OrdinaryTurn == [](C11_Carried) /\ [][C11_Sent /\ C11_Completed]_vars

\* the turn of "hello" completed with the answer "hi"
C11_Witness ==
    /\ branch = "final"
    /\ pc = "prompt"
    /\ Len(messages) = 3
    /\ messages[2] = [role |-> "user", content |-> "hello"]
    /\ messages[3] = [role |-> "assistant", content |-> "hi"]

(***************************************************************************)
(* C12: a user or configuration error is reported and the session goes on. *)
(* As claimed, for all four errors: after an unknown model name, an        *)
(* unreadable file, an unknown ":set" key or an unknown ":show" key, a     *)
(* message is printed, the process has not exited and the REPL is at the   *)
(* prompt (C12_SessionContinues).  As the code has it (C12_UserErrors):    *)
(* that holds for ":set model=<unknown>", ":set <unknown key>" and         *)
(* ":show <unknown key>", which also change no setting; an unreadable      *)
(* --file prints "Error reading file: ..." and ends the process with       *)
(* status 1; an unknown --model prints the error and ends the process with *)
(* status 0; in both cases no prompt is ever shown and no request sent.    *)
(***************************************************************************)
BadModelArgv == {argv \in ArgvSet : ~argv.list_models /\ ~AllowedModel(argv.model)}

BadFileArgv ==
    {argv \in ArgvSet :
        /\ ~argv.list_models
        /\ AllowedModel(argv.model)
        /\ \E i \in 1..Len(argv.file) : argv.file[i] \notin ReadableFiles}

\* typed lines with an unknown model name, an unknown :set key, an unknown :show key
ErrorLines == {":set model=gpt-5", ":set colour=red", ":show colour"}

\* the error was printed and the REPL is at the prompt
C12_Continues == pc' = "prompt" /\ exit_code' = -1 /\ stdout' # <<>>

C12_TypedErrors ==
    \A line \in ErrorLines :
        ReadLine(line, NoEdit) =>
            /\ C12_Continues
            /\ UNCHANGED <<args, create_args, messages, requests, in_flight>>

C12_SessionContinues ==
    [][/\ C12_TypedErrors
       /\ \A argv \in BadModelArgv \cup BadFileArgv : main(argv) => C12_Continues]_vars

C12_UserErrors ==
    [][/\ C12_TypedErrors
       /\ \A argv \in BadFileArgv :
            main(argv) =>
                /\ pc' = "done"
                /\ exit_code' = 1
                /\ stdout' = <<"Error reading file: missing.txt">>
                /\ UNCHANGED <<messages, requests, in_flight>>
       /\ \A argv \in BadModelArgv :
            main(argv) =>
                /\ pc' = "done"
                /\ exit_code' = 0
                /\ stdout' = <<"Error: Model '" \o argv.model \o "' not in allowed list.",
                               "Use --list-models to see available options.">>
                /\ UNCHANGED <<messages, requests, in_flight>>]_vars

\* the process ended on the unreadable file
C12_Witness ==
    /\ branch = "bad_file"
    /\ pc = "done"
    /\ exit_code = 1
    /\ stdout = <<"Error reading file: missing.txt">>

(***************************************************************************)
(* C13: termination by the user is a normal exit.  The line exit or quit,  *)
(* in any letter case and with any surrounding blanks, and an end of input *)
(* or an interrupt at the prompt or while a request is pending, end the    *)
(* process with exit status 0, drop the pending request, send no request   *)
(* and leave the conversation as it was; once the process has ended no     *)
(* request is pending and none is sent any more.                           *)
(***************************************************************************)
QuitLines == {" Quit ", "exit"}

C13_Ended ==
    /\ pc' = "done"
    /\ exit_code' = 0
    /\ in_flight' = <<>>
    /\ UNCHANGED <<requests, messages, tool_runs>>

C13_UserTermination ==
    /\ [](pc = "done" => in_flight = <<>>)
    /\ [][/\ \A line \in QuitLines : ReadLine(line, NoEdit) => C13_Ended
          /\ Interrupt => C13_Ended
          /\ pc = "done" => UNCHANGED <<requests, in_flight, exit_code>>]_vars

\* the user interrupted a turn whose request was pending
C13_Witness ==
    /\ branch = "interrupt"
    /\ pc = "done"
    /\ exit_code = 0
    /\ requests = 1
    /\ IsUserMessage(messages[Len(messages)])

(***************************************************************************)
(* C14: there is no retry.  The step in which responses.create raises      *)
(* sends no request, appends nothing to the conversation and runs no tool: *)
(* the request count and the conversation are unchanged, no request is     *)
(* pending afterwards and the process has ended; after a failed call the   *)
(* last conversation entry is never an assistant message written for that  *)
(* turn, and an ended process takes no further step.                       *)
(***************************************************************************)
C14_Aborted ==
    /\ UNCHANGED <<requests, messages, tool_runs>>
    /\ in_flight' = <<>>
    /\ pc' = "done"

C14_AfterFailure ==
    branch = "service_error" =>
        /\ pc = "done"
        /\ in_flight = <<>>
        /\ exit_code = 1
        /\ ~HasRole(messages[Len(messages)], "assistant")
        /\ requests = Count(messages, Len(messages), IsUserMessage)
                        + Count(messages, Len(messages), IsFunctionCall)

C14_NoRetry ==
    /\ [](C14_AfterFailure)
    /\ [][(ServiceError => C14_Aborted) /\ pc # "done"]_vars

\* the second request of a turn failed, after a tool call was dispatched
C14_Witness ==
    /\ branch = "service_error"
    /\ requests = 2
    /\ IsFunctionCallOutput(messages[Len(messages)])

(***************************************************************************)
(* C15: the busy-indicator thread is stopped and joined before control     *)
(* leaves the with block, whether the remote call returned or raised:      *)
(* when control has left the block the stop signal is set and the thread   *)
(* has ended; once the stop signal is set the thread eventually ends and   *)
(* the join eventually returns; nothing is written to the terminal while   *)
(* control is outside the block; and no step of the thread changes the     *)
(* conversation, the request arguments or the pending request.             *)
(***************************************************************************)
C15_Joined == with_pc = "after" => (spinner.stop_event /\ spin_pc = "dead")

C15_QuietOutside == with_pc \in {"after", "before"} => terminal' = terminal

C15_ThreadLocal == spin => UNCHANGED <<messages, create_args, in_flight, args>>

C15_SpinnerJoined ==
    /\ [](C15_Joined)
    /\ [][C15_QuietOutside /\ C15_ThreadLocal]_vars
    /\ (spinner.stop_event ~> spin_pc = "dead")
    /\ (with_pc = "join" ~> with_pc = "after")

\* the remote call raised, and control left the block after the thread had
\* shown frames and blanked the line
C15_Witness ==
    /\ with_pc = "after"
    /\ exc
    /\ spin_pc = "dead"
    /\ spinner.spinner_index = 3
    /\ terminal = "\r" \o Blanks(Len("Thinking") + 3) \o "\r"

(***************************************************************************)
(* C16: usage statistics are printed by a step exactly when that step      *)
(* completes a turn and the stats setting is on at that moment; and after  *)
(* ":set stats=<v>" (":set web=<v>") the stats (web) setting is on exactly *)
(* when v, stripped and lower-cased, is 1, true, on or yes: on after "1",  *)
(* "on" and " YES", off after "no", "off" and "2".                         *)
(***************************************************************************)
StatsPrinted(out) ==
    \E i \in 1..Len(out) : startswith(out[i], "stats: input_tokens=")

C16_Stats == StatsPrinted(stdout) <=> (branch = "final" /\ args.stats)

\* (each part is written "effect, or else the line was not read")
C16_Set ==
    /\ args'.stats \/ ~ReadLine(":set stats=1", NoEdit)
    /\ ~args'.stats \/ ~ReadLine(":set stats=no", NoEdit)
    /\ args'.web \/ \A line \in {":set web=on", ":set web= YES"} : ~ReadLine(line, NoEdit)
    /\ ~args'.web \/ \A line \in {":set web=off", ":set web=2"} : ~ReadLine(line, NoEdit)

C16_StatsSetting == [](C16_Stats) /\ [][C16_Set]_vars

\* a turn completed with the stats setting on, and its statistics were printed
C16_Witness ==
    /\ branch = "final"
    /\ args.stats
    /\ stdout = <<"--------", "hi",
                  "stats: input_tokens=1 output_tokens=2 cached_tokens=0 total_tokens=3">>

(***************************************************************************)
(* C17: when ":edit" leaves a scratch file whose stripped contents are not *)
(* empty, the REPL appends exactly one user message holding the stripped   *)
(* contents, whatever they are, and sends the first request of a turn.     *)
(***************************************************************************)
C17_EditedTextSent ==
    [][\A edit \in EditOutcomes :
        (edit.ok /\ ~Blank(edit.text) /\ ReadLine(":edit", edit)) =>
            /\ messages' = Append(messages,
                                  [role |-> "user", content |-> strip(edit.text)])
            /\ requests' = requests + 1
            /\ pc' = "awaiting"]_vars

(***************************************************************************)
(* C18: the response loop ends only on a terminal leading event and has no *)
(* iteration cap.  A turn returns to the prompt only by a response whose   *)
(* leading event is message or web_search_call; a function_call for a      *)
(* registered tool whose function returns is always answered by another    *)
(* request, however many tools the turn has run already; and, the service  *)
(* answering every pending request, a pending turn eventually completes    *)
(* unless the process ends first (a fault of the service or of a tool, an  *)
(* unknown tool or event type, or the user's interrupt).                   *)
(***************************************************************************)
C18_ReturnsOnTerminal ==
    (pc = "awaiting" /\ pc' = "prompt") =>
        /\ branch' = "final"
        /\ \E response \in Responses(requests) :
                /\ response.output[1].type \in {"message", "web_search_call"}
                /\ ServiceResponse(response, [ok |-> TRUE, out |-> ""])

C18_NoCap ==
    \A response \in Responses(requests) :
        LET leading == response.output[1]
        IN  (leading.type = "function_call" /\ leading.name \in RegisteredNames) =>
                \A outcome \in ToolOutcomes(leading.name) :
                    (outcome.ok /\ ServiceResponse(response, outcome)) =>
                        /\ pc' = "awaiting"
                        /\ tool_runs' = tool_runs + 1
                        /\ requests' = requests + 1
                        /\ Len(in_flight') = 1

C19_Step(response, outcome) ==
    LET leading == response.output[1]
    IN  /\ leading.type \in {"message", "web_search_call"} =>
            /\ tool_runs' = tool_runs
            /\ requests' = requests
            /\ pc' = "prompt"
            /\ messages' = Append(messages, [role |-> "assistant",
                                             content |-> response.output_text])
            /\ stdout'[2] = response.output_text
        /\ leading.type = "function_call" =>
            /\ tool_runs' \in {tool_runs, tool_runs + 1}
            /\ leading.name \in RegisteredNames => tool_runs' = tool_runs + 1
            /\ (leading.name \in RegisteredNames /\ outcome.ok) =>
                    messages' = messages \o
                        <<leading, [type |-> "function_call_output",
                                    call_id |-> leading.call_id,
                                    output |-> outcome.out]>>

C19_LeadingEventDecides ==
    [][\A response \in Responses(requests) :
        \A outcome \in AllOutcomes :
            ServiceResponse(response, outcome) => C19_Step(response, outcome)]_vars

\* a turn ended on the response whose web_search_call event was followed by a
\* message and a function_call
C19_Witness ==
    /\ branch = "final"
    /\ pc = "prompt"
    /\ tool_runs = 0
    /\ messages[Len(messages)] = [role |-> "assistant", content |-> "found"]
    /\ ~\E i \in 1..Len(messages) : IsFunctionCall(messages[i])

(***************************************************************************)
(* C20: the conversation is append-only.  Every step of the program, REPL  *)
(* command or response-loop step, leaves the conversation it found as a    *)
(* prefix of the conversation it leaves: no entry is removed, replaced or  *)
(* reordered and new entries come only at the end, at most two in a step.  *)
(***************************************************************************)
IsPrefix(s, t) == Len(s) <= Len(t) /\ SubSeq(t, 1, Len(s)) = s

C20_AppendOnly ==
    [][IsPrefix(messages, messages') /\ Len(messages') <= Len(messages) + 2]_vars

\* a turn with one tool call completed: developer, user, call, result, assistant
C20_Witness ==
    /\ branch = "final"
    /\ Len(messages) = 5
    /\ HasRole(messages[1], "developer")
    /\ IsUserMessage(messages[2])
    /\ IsFunctionCall(messages[3])
    /\ IsFunctionCallOutput(messages[4])
    /\ HasRole(messages[5], "assistant")

(***************************************************************************)
(* C21: the tool definitions are fixed for the session.  From the first    *)
(* prompt on, the function-tool entries of the tool schema list, and of    *)
(* the list carried by every request, are exactly the definitions of the   *)
(* registry TOOLS, each once and in registry order, with distinct names;   *)
(* every other entry is a web-search entry; and no step, ":set web="       *)
(* toggles included, changes the function-tool entries.                    *)
(***************************************************************************)
FunctionTools(tools) == SelectSeq(tools, LAMBDA tool : tool.type = "function")

RegistryDefinitions == [i \in 1..Len(TOOLS) |-> TOOLS[i].definition]

C21_Fixed(tools) ==
    /\ FunctionTools(tools) = RegistryDefinitions
    /\ Len(tools) = Len(RegistryDefinitions) + WebCount(tools)
    /\ \A i, j \in 1..Len(RegistryDefinitions) :
            RegistryDefinitions[i].name = RegistryDefinitions[j].name => i = j

C21_SchemaList ==
    /\ Running => C21_Fixed(create_args.tools)
    /\ in_flight # <<>> => C21_Fixed(in_flight[1].tools)

C21_Unchanged ==
    pc # "start" => FunctionTools(create_args'.tools) = FunctionTools(create_args.tools)

====
